---- MODULE Spec2Model ----
(***************************************************************************)
(* Memory-tiering subsystem of wealth-machine (tools/jarvis):              *)
(*   mem-redis/scripts/cron_backup.py      Promotion (Redis -> Qdrant)     *)
(*   mem-redis/scripts/cron_capture.py     Capture (transcript -> Redis)   *)
(*   mem-redis/scripts/hb_append.py, save_mem.py   other buffer producers  *)
(*   qdrant-memory/scripts/auto_store.py   store_conversation_turn         *)
(*   qdrant-memory/scripts/daily_conversation_backup.py                    *)
(*   qdrant-memory/scripts/extract_facts.py                                *)
(*                                                                         *)
(* Abstractions: a timestamp is a natural number (ISO-8601 strings of one  *)
(* format compare the same way); a content hash is the tuple of the hash   *)
(* algorithm and the stripped texts (collision-free); a Vector Store point *)
(* is its payload, the store a bag of payloads (ids are fresh uuid4s);     *)
(* a transcript line is one or two bytes long; a fact is the pair of the    *)
(* first 100 characters of its text and the rest; there is one session     *)
(* transcript and one daily log; a line of the daily log is the shape the  *)
(* parser tests for and whether it holds "**"; hb_append, save_mem and the *)
(* conversation backups run between Promotion runs, cron_capture at any    *)
(* step.                                                                   *)
(***************************************************************************)
EXTENDS Integers, Sequences, FiniteSets, Bags, TLC

\* ------------------------------------------------------------------ bounds
MaxClock == 4        \* turns the producers push over a behaviour
MaxBatch == 2        \* turns pushed by one producer call
MaxPoints == 6       \* conversation points in the Vector Store
MaxFaults == 2       \* failed network calls of store_conversation_turn over a behaviour
MaxTs == 2           \* timestamps a producer may stamp when they are not the clock
MaxTurnNo == 1       \* turn numbers hb_append / save_mem may assign
MaxFactList == 2     \* facts parse_markdown_sections returns for one daily log
MaxFactPoints == 3   \* fact points in the Vector Store
MaxLines == 3        \* lines of the session transcript
MaxAccess == 3       \* access-stat updates over a behaviour
MaxLogLines == 4     \* lines of the daily log
MaxTasks == 4        \* tasks added to the queue over a behaviour

\* ------------------------------------------------------------------ data
Users == {"rob"}
USER_ID == "rob"
\* the user ids the Redis keys mem:{user_id} exist for
AllUsers == {"rob", "amy"}
UserMsgs == {"A", "B"}
AiMsgs == {"X"}
NoTurn == 0

\* a BufferEntry as json.loads returns it; turn = NoTurn: the key is absent
Entry(role, content, ts, turn) ==
    [role |-> role, content |-> content, timestamp |-> ts, turn |-> turn]

\* str.strip() on the modelled texts
Strip(s) == IF s = "A " THEN "A" ELSE s

\* auto_store.get_content_hash: sha256 of "<strip(user)>::<strip(ai)>"
get_content_hash(user_msg, ai_response) ==
    <<"sha256", Strip(user_msg), Strip(ai_response)>>

\* daily_conversation_backup.get_content_hash: md5 of the same string
daily_get_content_hash(user_msg, ai_response) ==
    <<"md5", Strip(user_msg), Strip(ai_response)>>

Point(uid, hash, stype, text, source) ==
    [user_id |-> uid, content_hash |-> hash, source_type |-> stype,
     text |-> text, source |-> source]

\* points of the store matching the scroll filter user_id + content_hash
Matching(st, uid, hash) ==
    {p \in BagToSet(st) : p.user_id = uid /\ p.content_hash = hash}

CountWhere(st, P(_)) ==
    LET S == {p \in BagToSet(st) : P(p)}
        RECURSIVE Sum(_)
        Sum(T) == IF T = {} THEN 0
                  ELSE LET p == CHOOSE q \in T : TRUE
                       IN CopiesIn(p, st) + Sum(T \ {p})
    IN Sum(S)

\* ------------------------------------------------------------------ sorting and pairing (cron_backup.store_to_qdrant)
\* a sort key that leaves the turn number out
KeyLessByTimestampOnly(a, b) == a.timestamp < b.timestamp

\* the sort key (t.get('timestamp', ''), t.get('turn', 0)), compared as a tuple
KeyLess(a, b) ==
    \/ a.timestamp < b.timestamp
    \/ a.timestamp = b.timestamp /\ a.turn < b.turn

\* sorted(): stable, so entries with equal keys keep their physical order
RECURSIVE SortTurns(_)
SortTurns(s) ==
    IF s = <<>> THEN <<>>
    ELSE LET t == SortTurns(SubSeq(s, 1, Len(s) - 1))
             e == s[Len(s)]
             p == Cardinality({j \in 1..Len(t) : ~KeyLess(e, t[j])})
         IN SubSeq(t, 1, p) \o <<e>> \o SubSeq(t, p + 1, Len(t))

\* the inner while loop: the content of the first assistant entry after
\* position i, the search stopping at the next user entry; "" if none
RECURSIVE ScanResponse(_, _)
ScanResponse(ts, j) ==
    IF j > Len(ts) THEN ""
    ELSE IF ts[j].role = "assistant" THEN ts[j].content
    ELSE IF ts[j].role = "user" THEN ""
    ELSE ScanResponse(ts, j + 1)

\* index of the first user entry at or after position i, Len + 1 if none
RECURSIVE NextUser(_, _)
NextUser(ts, i) ==
    IF i > Len(ts) THEN Len(ts) + 1
    ELSE IF ts[i].role = "user" THEN i
    ELSE NextUser(ts, i + 1)

UserTurns(ts) == {i \in 1..Len(ts) : ts[i].role = "user"}

\* the (user_message, ai_response) arguments the for loop passes to
\* store_conversation_turn, in order, from position i on
RECURSIVE ExchangesFrom(_, _)
ExchangesFrom(ts, i) ==
    LET u == NextUser(ts, i)
    IN IF u > Len(ts) THEN <<>>
       ELSE <<<<ts[u].content, ScanResponse(ts, u + 1)>>>> \o ExchangesFrom(ts, u + 1)


\* ------------------------------------------------------------------ state
VARIABLES
    buffer,            \* Redis list "mem:{user_id}", head first, per user
    store,             \* Qdrant collection kimi_memories: a bag of payloads
    clock,             \* number of turns the producers have pushed
    faults,            \* number of network calls that have failed
    dup_query_failed,  \* some duplicate-check scroll request got no answer
    pc,                \* cron_backup process: "idle", "loop", "finish", "done"
    user_id,           \* args.user_id
    dry_run,           \* args.dry_run
    QDRANT_AVAILABLE,  \* the import of auto_store succeeded
    turns,             \* what get_redis_items returned
    turns_sorted,      \* store_to_qdrant: turns in (timestamp, turn) order
    i,                 \* store_to_qdrant: loop position in turns_sorted
    attempted,         \* store_to_qdrant: user turns seen
    success_count,     \* store_to_qdrant: results with success or skipped
    qdrant_success,    \* main: what store_to_qdrant returned
    recent_hashes,     \* auto_store._recent_hashes of the running process
    calls,             \* the store_conversation_turn calls of the run, in order
    store0,            \* the Vector Store when the run started
    cleared,           \* the run deleted the buffer key
    exitCode,          \* process exit status of the finished run, -1 before
    prev,              \* what the previous run read, if it was healthy and cleared
    factStore,         \* the points of kimi_memories written by extract_facts
    fx,                \* the last extract_facts run: what it set out to store and how it ended
    transcript,        \* the latest session transcript (*.jsonl), a sequence of lines
    state_file,        \* .mem_capture_state.json: the transcript's entry
    mem_thinking,      \* Redis list mem_thinking:{user_id}
    cap,               \* the last cron_capture run and the runs since the transcript grew
    found,             \* the last search: its arguments, results and output
    access,            \* per point of the Vector Store, its access_count (a bag)
    log,               \* memory/YYYY-MM-DD.md, the daily log: its lines
    log_facts,         \* the last parse_markdown_sections result for the log
    mem_last_turn,     \* .mem_last_turn, hb_append's state file
    hb,                \* the last hb_append run
    meta_state,        \* meta_state_{user_id}.json: last_redis_len per user
    compact,           \* the last metadata_and_compact run
    pending,           \* Redis list tasks:pending, head first
    completed,         \* Redis list tasks:completed, head first
    next_task,         \* the number of tasks added
    worker,            \* the last heartbeat_worker run
    tail,              \* the bytes of a line the agent has begun to write to the transcript
    searcher,          \* per search_memories process: the response it holds and the results updated
    touched,           \* per point, the access-stat updates Qdrant has answered (a bag)
    storer             \* per auto_store process: the exchange it handles and the store its duplicate check saw

promoVars == <<pc, user_id, dry_run, QDRANT_AVAILABLE, turns, turns_sorted, i,
               attempted, success_count, qdrant_success, recent_hashes, calls,
               store0, cleared, exitCode, prev>>

factVars == <<factStore, fx>>

captureVars == <<transcript, state_file, mem_thinking, cap>>

searchVars == <<found, access>>

parseVars == <<log, log_facts>>

hbVars == <<mem_last_turn, hb>>

compactVars == <<meta_state, compact>>

queueVars == <<pending, completed, next_task, worker>>

writerVars == <<tail>>

trackVars == <<searcher, touched>>

storerVars == <<storer>>

auxVars == <<hbVars, compactVars, queueVars, writerVars, trackVars, storerVars>>

\* auxVars but the named group
auxNotHb == <<compactVars, queueVars, writerVars, trackVars, storerVars>>
auxNotCompact == <<hbVars, queueVars, writerVars, trackVars, storerVars>>
auxNotQueue == <<hbVars, compactVars, writerVars, trackVars, storerVars>>
auxNotWriter == <<hbVars, compactVars, queueVars, trackVars, storerVars>>
auxNotTrack == <<hbVars, compactVars, queueVars, writerVars, storerVars>>
auxNotStorer == <<hbVars, compactVars, queueVars, writerVars, trackVars>>

\* everything but auxVars
baseVars == <<buffer, store, clock, faults, dup_query_failed, promoVars, factVars,
              captureVars, searchVars, parseVars>>

vars == <<buffer, store, clock, faults, dup_query_failed, promoVars, factVars,
          captureVars, searchVars, parseVars, auxVars>>

SourceTypes == {"user", "assistant", "system"}

\* ------------------------------------------------------------------ auto_store.py
RECENT_CAP == 1000

\* a scroll request that never finds a point
QdrantNeverHasHash(st, uid, hash) == FALSE

\* the scroll request of is_duplicate: limit 1, filter user_id + content_hash
QdrantHasHash(st, uid, hash) == Matching(st, uid, hash) # {}

\* a duplicate check that asks the in-process cache only
is_duplicate_cache_only(st, rh, uid, user_msg, ai_response, queryOk) ==
    get_content_hash(user_msg, ai_response) \in rh

\* is_duplicate: the in-process cache first, then Qdrant; a failed request
\* (queryOk = FALSE) is swallowed and answers False
is_duplicate(st, rh, uid, user_msg, ai_response, queryOk) ==
    LET content_hash == get_content_hash(user_msg, ai_response)
    IN \/ content_hash \in rh
       \/ queryOk /\ QdrantHasHash(st, uid, content_hash)

mark_stored(rh, user_msg, ai_response) ==
    LET added == rh \cup {get_content_hash(user_msg, ai_response)}
    IN IF Cardinality(added) > RECENT_CAP THEN {} ELSE added

\* The outcome of the network calls of one store_conversation_turn call:
\*   query    the scroll request of is_duplicate answered
\*   user     get_embedding and the upsert of the user point both succeeded
\*   ai       the same for the assistant point
\*   summary  the same for the summary point
Outcomes == [query : BOOLEAN, user : BOOLEAN, ai : BOOLEAN, summary : BOOLEAN]
AllOk == [query |-> TRUE, user |-> TRUE, ai |-> TRUE, summary |-> TRUE]

\* store_memory_point: one embedding, one upsert of one point
store_memory_point(st, uid, text, speaker, content_hash, ok) ==
    IF ok THEN st (+) SetToBag({Point(uid, content_hash, speaker, text,
                                      "conversation_auto")})
    ELSE st

\* store_conversation_turn(user_id, user_message, ai_response): the new store,
\* the new cache and the returned dict. Three separate upserts; the summary's
\* outcome is not part of 'success'. 'wrote' / 'failed' list the source types
\* whose point was written / whose embed or upsert failed; 'queryFailed' says
\* that the duplicate check got no answer from Qdrant.
store_conversation_turn(st, rh, uid, user_message, ai_response, o) ==
    LET h == get_content_hash(user_message, ai_response)
        queryFailed == h \notin rh /\ ~o.query
        st1 == store_memory_point(st, uid, <<user_message>>, "user", h, o.user)
        st2 == store_memory_point(st1, uid, <<ai_response>>, "assistant", h, o.ai)
        st3 == IF o.summary
                 THEN st2 (+) SetToBag({Point(uid, h, "system",
                                   <<user_message, ai_response>>, "conversation_summary")})
                 ELSE st2
        written == {t \in SourceTypes : \/ t = "user" /\ o.user
                                        \/ t = "assistant" /\ o.ai
                                        \/ t = "system" /\ o.summary}
    IN IF is_duplicate(st, rh, uid, user_message, ai_response, o.query)
       THEN [store |-> st, recent |-> rh,
             result |-> [user_message |-> user_message, ai_response |-> ai_response,
                         success |-> TRUE, skipped |-> TRUE,
                         queryFailed |-> queryFailed, wrote |-> {}, failed |-> {}]]
       ELSE [store |-> st3,
             recent |-> IF o.user /\ o.ai
                          THEN mark_stored(rh, user_message, ai_response) ELSE rh,
             result |-> [user_message |-> user_message, ai_response |-> ai_response,
                         success |-> o.user /\ o.ai, skipped |-> FALSE,
                         queryFailed |-> queryFailed,
                         wrote |-> written, failed |-> SourceTypes \ written]]

\* the network calls of a store_conversation_turn call that failed
FailedCalls(result) ==
    Cardinality(result.failed) + (IF result.queryFailed THEN 1 ELSE 0)

\* the processes that may run store_conversation_turn at the same time: a
\* Promotion run, or the auto_store.py process that background_store spawns
Storers == {1, 2}

\* a process that handles no exchange
NoExchange ==
    [pc |-> "idle", user_id |-> "", user_message |-> "", ai_response |-> "",
     seen |-> EmptyBag]

\* store_conversation_turn, up to the answer of is_duplicate's scroll
\* request: the process is new, its cache empty, and what the request sees
\* is the store at this time
BeginStore(s, u, user_message, ai_response) ==
    /\ storer[s] = NoExchange
    /\ storer' = [storer EXCEPT ![s] =
           [pc |-> "checked", user_id |-> u, user_message |-> user_message,
            ai_response |-> ai_response, seen |-> store]]
    /\ UNCHANGED <<baseVars, auxNotStorer>>

\* store_conversation_turn, from the duplicate decision on: skip, or the
\* three upserts of new points into the store as it is now
FinishStore(s, o) ==
    LET e == storer[s]
        r == store_conversation_turn(e.seen, {}, e.user_id, e.user_message,
                                     e.ai_response, o)
        st == store (+) (r.store (-) e.seen)
    IN /\ e.pc = "checked"
       /\ BagCardinality(st) <= MaxPoints
       /\ store' = st
       /\ storer' = [storer EXCEPT ![s] = NoExchange]
       /\ UNCHANGED <<buffer, clock, faults, dup_query_failed, promoVars, factVars,
                      captureVars, searchVars, parseVars, auxNotStorer>>

\* ------------------------------------------------------------------ daily_conversation_backup.py
\* one iteration of main's loop: is_duplicate, then store_conversation_turn,
\* which needs all three embeddings (o.user, o.ai, o.summary) and upserts the
\* three points in one PUT (batchOk)
daily_store_conversation_turn(st, uid, user_message, ai_response, o, batchOk) ==
    LET h == daily_get_content_hash(user_message, ai_response)
    IN IF o.query /\ QdrantHasHash(st, uid, h) THEN st
       ELSE IF ~(o.user /\ o.ai /\ o.summary) THEN st
       ELSE IF ~batchOk THEN st
       ELSE st (+) SetToBag({
                Point(uid, h, "user", <<user_message>>, "conversation_daily_backup"),
                Point(uid, h, "assistant", <<ai_response>>, "conversation_daily_backup"),
                Point(uid, h, "system", <<user_message, ai_response>>,
                      "conversation_summary")})

\* ------------------------------------------------------------------ buffer producers
\* what a producer parsed from the transcript: 1..MaxBatch turns in
\* chronological order, as <<role, content>> pairs
TurnChoices == {<<"user", m>> : m \in UserMsgs} \cup {<<"assistant", m>> : m \in AiMsgs}

Batches == UNION {[1..n -> TurnChoices] : n \in 1..MaxBatch}

Reverse(s) == [k \in 1..Len(s) |-> s[Len(s) + 1 - k]]

\* the timestamps of a batch: those of the transcript lines, which follow the
\* clock, or (free) any non-decreasing stamps, as when lines carry none and
\* the producer stamps its own time of day
Stamps(n, free) ==
    IF free
      THEN {t \in [1..n -> 1..MaxTs] : \A k \in 1..(n - 1) : t[k] <= t[k + 1]}
      ELSE {[k \in 1..n |-> clock + k]}

\* r.lpush(key, x) for x in xs, in order: the last pushed ends up at the head
LPushAll(list, xs) == Reverse(xs) \o list

\* r.rpush(key, x) for x in xs, in order
RPushAll(list, xs) == list \o xs

\* hb_append.append_to_redis: LPUSH each new turn, oldest first; the turns
\* carry consecutive 'turn' numbers
HbAppend(u, free) ==
    /\ pc = "idle"
    /\ \E b \in Batches :
         \E t \in Stamps(Len(b), free), n0 \in 0..(MaxTurnNo - 1) :
           /\ clock + Len(b) <= MaxClock
           /\ buffer' = [buffer EXCEPT ![u] = LPushAll(@,
                  [k \in 1..Len(b) |-> Entry(b[k][1], b[k][2], t[k], n0 + k)])]
           /\ clock' = clock + Len(b)
    /\ UNCHANGED <<store, faults, dup_query_failed, promoVars>>
    /\ UNCHANGED <<factVars, captureVars, searchVars, parseVars, auxVars>>

\* save_mem.save_to_redis: LPUSH the turns in reversed order; 'turn' counts
\* from 1
SaveMem(u, free) ==
    /\ pc = "idle"
    /\ \E b \in Batches :
         \E t \in Stamps(Len(b), free) :
           /\ clock + Len(b) <= MaxClock
           /\ buffer' = [buffer EXCEPT ![u] = LPushAll(@,
                  Reverse([k \in 1..Len(b) |-> Entry(b[k][1], b[k][2], t[k], k)]))]
           /\ clock' = clock + Len(b)
    /\ UNCHANGED <<store, faults, dup_query_failed, promoVars>>
    /\ UNCHANGED <<factVars, captureVars, searchVars, parseVars, auxVars>>

\* cron_capture.append_to_redis: RPUSH each message; no 'turn' key
CaptureAppend(u, free) ==
    /\ pc = "idle"
    /\ \E b \in Batches :
         \E t \in Stamps(Len(b), free) :
           /\ clock + Len(b) <= MaxClock
           /\ buffer' = [buffer EXCEPT ![u] = RPushAll(@,
                  [k \in 1..Len(b) |-> Entry(b[k][1], b[k][2], t[k], NoTurn)])]
           /\ clock' = clock + Len(b)
    /\ UNCHANGED <<store, faults, dup_query_failed, promoVars>>
    /\ UNCHANGED <<factVars, captureVars, searchVars, parseVars, auxVars>>

\* ------------------------------------------------------------------ cron_backup.py
\* main up to the first call of store_conversation_turn: get_redis_items
\* (readOk = FALSE: Redis is unreachable), the empty-buffer and dry-run exits,
\* and the head of store_to_qdrant (availability check, sort, user_turns check)
StartPromotion(u, dry, avail, readOk) ==
    /\ pc = "idle"
    /\ BagCardinality(store) + 3 * Cardinality(UserTurns(buffer[u])) <= MaxPoints
    /\ user_id' = u
    /\ dry_run' = dry
    /\ QDRANT_AVAILABLE' = avail
    /\ recent_hashes' = {}
    /\ calls' = <<>>
    /\ store0' = store
    /\ cleared' = FALSE
    /\ attempted' = 0
    /\ success_count' = 0
    /\ turns' = IF readOk THEN buffer[u] ELSE <<>>
    /\ turns_sorted' = IF readOk /\ avail /\ ~dry THEN SortTurns(buffer[u]) ELSE <<>>
    /\ i' = IF readOk /\ avail /\ ~dry THEN NextUser(SortTurns(buffer[u]), 1) ELSE 0
    /\ IF ~readOk
         THEN pc' = "done" /\ exitCode' = 1 /\ qdrant_success' = FALSE
       ELSE IF buffer[u] = <<>>
         THEN pc' = "done" /\ exitCode' = 0 /\ qdrant_success' = FALSE
       ELSE IF dry
         THEN pc' = "done" /\ exitCode' = 0 /\ qdrant_success' = TRUE
       ELSE IF ~avail \/ UserTurns(buffer[u]) = {}
         THEN pc' = "finish" /\ exitCode' = -1 /\ qdrant_success' = TRUE
       ELSE pc' = "loop" /\ exitCode' = -1 /\ qdrant_success' = FALSE
    /\ UNCHANGED <<buffer, store, clock, faults, dup_query_failed, prev>>
    /\ UNCHANGED <<factVars, captureVars, searchVars, parseVars, auxVars>>

\* one iteration of the for loop of store_to_qdrant at a user turn: pair it,
\* call store_conversation_turn, count the result; after the last user turn
\* the function returns attempted > 0 and success_count == attempted
StoreTurn(outcomes) ==
    /\ pc = "loop"
    /\ \E o \in outcomes :
         LET turn == turns_sorted[i]
             ai_response == ScanResponse(turns_sorted, i + 1)
             r == store_conversation_turn(store, recent_hashes, user_id,
                                          turn.content, ai_response, o)
             ok == r.result.success \/ r.result.skipped
             nxt == NextUser(turns_sorted, i + 1)
         IN /\ faults + FailedCalls(r.result) <= MaxFaults
            /\ faults' = faults + FailedCalls(r.result)
            /\ dup_query_failed' = (dup_query_failed \/ r.result.queryFailed)
            /\ store' = r.store
            /\ recent_hashes' = r.recent
            /\ calls' = Append(calls, r.result)
            /\ attempted' = attempted + 1
            /\ success_count' = IF ok THEN success_count + 1 ELSE success_count
            /\ i' = nxt
            /\ IF nxt > Len(turns_sorted)
                 THEN /\ pc' = "finish"
                      /\ qdrant_success' =
                           (attempted' > 0 /\ success_count' = attempted')
                 ELSE UNCHANGED <<pc, qdrant_success>>
    /\ UNCHANGED <<buffer, clock, user_id, dry_run, QDRANT_AVAILABLE, turns,
                   turns_sorted, store0, cleared, exitCode, prev>>
    /\ UNCHANGED <<factVars, captureVars, searchVars, parseVars, auxVars>>

\* main after store_to_qdrant: exit 1 after the file fallback when storage was
\* incomplete (the backup file's content is not modelled), else clear_redis
\* (clearOk = FALSE: the delete raised)
Finish(clearOk) ==
    /\ pc = "finish"
    /\ pc' = "done"
    /\ IF ~qdrant_success
         THEN /\ exitCode' = 1
              /\ UNCHANGED <<buffer, cleared>>
       ELSE IF clearOk
         THEN /\ buffer' = [buffer EXCEPT ![user_id] = <<>>]
              /\ cleared' = TRUE
              /\ exitCode' = 0
       ELSE /\ exitCode' = 1
            /\ UNCHANGED <<buffer, cleared>>
    /\ UNCHANGED <<store, clock, faults, dup_query_failed, user_id, dry_run, QDRANT_AVAILABLE, turns,
                   turns_sorted, i, attempted, success_count, qdrant_success,
                   recent_hashes, calls, store0, prev>>
    /\ UNCHANGED <<factVars, captureVars, searchVars, parseVars, auxVars>>

\* every network call of the run succeeded and the storage module was there
Healthy ==
    /\ QDRANT_AVAILABLE
    /\ ~dry_run
    /\ \A k \in 1..Len(calls) : FailedCalls(calls[k]) = 0

\* the process ends; the next run is a new process with an empty cache
Exit ==
    /\ pc = "done"
    /\ pc' = "idle"
    /\ prev' = IF Healthy /\ cleared THEN turns ELSE <<>>
    /\ turns' = <<>>
    /\ turns_sorted' = <<>>
    /\ i' = 0
    /\ attempted' = 0
    /\ success_count' = 0
    /\ qdrant_success' = FALSE
    /\ recent_hashes' = {}
    /\ calls' = <<>>
    /\ store0' = EmptyBag
    /\ cleared' = FALSE
    /\ exitCode' = -1
    /\ dry_run' = FALSE
    /\ QDRANT_AVAILABLE' = TRUE
    /\ UNCHANGED <<buffer, store, clock, faults, dup_query_failed, user_id>>
    /\ UNCHANGED <<factVars, captureVars, searchVars, parseVars, auxVars>>

\* daily_conversation_backup.main, one conversation of the day's log, the
\* network calls ending in one of the outcomes
DailyBackup(u, outcomes, batchOks) ==
    /\ pc = "idle"
    /\ BagCardinality(store) + 3 <= MaxPoints
    /\ \E m \in UserMsgs, a \in AiMsgs, o \in outcomes, batchOk \in batchOks :
         /\ store' = daily_store_conversation_turn(store, u, m, a, o, batchOk)
         /\ dup_query_failed' = (dup_query_failed \/ ~o.query)
    /\ UNCHANGED <<buffer, clock, faults, promoVars>>
    /\ UNCHANGED <<factVars, captureVars, searchVars, parseVars, auxVars>>

DailyBackupTurn(u) == DailyBackup(u, Outcomes, BOOLEAN)

\* ------------------------------------------------------------------ extract_facts.py
DEFAULT_BATCH_SIZE == 50

\* the values of --batch-size
BatchSizes == {1, DEFAULT_BATCH_SIZE}

\* fact texts: <<first 100 characters, rest>>
FactTexts == {<<"h1", "r1">>, <<"h1", "r2">>, <<"h2", "r1">>}

\* f["text"][:100]
Preview(text) == text[1]

\* what parse_markdown_sections may return for the daily log: up to
\* MaxFactList different facts, in the order of the file
FactLists ==
    UNION {{f \in [1..n -> FactTexts] : \A a, b \in 1..n : f[a] = f[b] => a = b} :
             n \in 0..MaxFactList}

\* check_existing_facts: the previews of the points tagged with the date, the
\* empty set when the scroll request fails
check_existing_facts(st, queryOk) ==
    IF queryOk THEN {Preview(t) : t \in BagToSet(st)} ELSE {}

\* the new_facts list of process_single_date
SelectNew(facts, existing) == SelectSeq(facts, LAMBDA f : Preview(f) \notin existing)

\* how the upload of one batch ends: both requests answered, the embedding
\* request failed, or the upsert failed
BatchResults == {"ok", "embed_failed", "upsert_failed"}

\* range(0, total, batch_size): the number of batches
NumBatches(total, batch_size) == (total + batch_size - 1) \div batch_size

SeqToBag(s) ==
    LET elems == {s[k] : k \in 1..Len(s)}
    IN [e \in elems |-> Cardinality({k \in 1..Len(s) : s[k] = e})]

\* upload_facts_batch from the batch that starts at position start: a batch
\* whose embeddings fail is counted failed, a batch whose upsert fails is
\* counted failed, the other batches are written and counted uploaded
RECURSIVE UploadFrom(_, _, _, _, _, _, _)
UploadFrom(st, facts, batch_size, outs, start, uploaded, failed) ==
    IF start > Len(facts)
      THEN [store |-> st, uploaded |-> uploaded, failed |-> failed]
    ELSE LET last == IF start + batch_size - 1 < Len(facts)
                       THEN start + batch_size - 1 ELSE Len(facts)
             batch == SubSeq(facts, start, last)
             o == outs[((start - 1) \div batch_size) + 1]
         IN IF o = "ok"
              THEN UploadFrom(st (+) SeqToBag(batch), facts, batch_size, outs,
                              start + batch_size, uploaded + Len(batch), failed)
              ELSE UploadFrom(st, facts, batch_size, outs,
                              start + batch_size, uploaded, failed + Len(batch))

upload_facts_batch(st, facts, batch_size, outs) ==
    UploadFrom(st, facts, batch_size, outs, 1, 0, 0)

\* main with --date (or today's date): process_single_date, the summary, and
\* the return from main, which is exit status 0 whatever was counted failed
ExtractFacts(dry, batch_size, queryOk) ==
    /\ pc = "idle"
    /\ \E facts \in FactLists :
        LET existing == check_existing_facts(factStore, queryOk)
            new_facts == SelectNew(facts, existing)
        IN \E outs \in [1..NumBatches(Len(new_facts), batch_size) -> BatchResults] :
             LET r == IF facts = <<>> \/ new_facts = <<>>
                        THEN [store |-> factStore, uploaded |-> 0, failed |-> 0]
                      ELSE IF dry
                        THEN [store |-> factStore, uploaded |-> Len(new_facts),
                              failed |-> 0]
                      ELSE upload_facts_batch(factStore, new_facts, batch_size, outs)
             IN /\ BagCardinality(r.store) <= MaxFactPoints
                /\ factStore' = r.store
                /\ fx' = [ran |-> TRUE, dry_run |-> dry, new_facts |-> new_facts,
                          uploaded |-> r.uploaded, failed |-> r.failed,
                          exitCode |-> 0, facts |-> facts, checked |-> queryOk,
                          prev |-> [ran |-> fx.ran, dry_run |-> fx.dry_run,
                                    facts |-> fx.facts, failed |-> fx.failed]]
    /\ UNCHANGED <<buffer, store, clock, faults, dup_query_failed, promoVars,
                   captureVars, searchVars, parseVars, auxVars>>

\* ------------------------------------------------------------------ cron_capture.py
\* the lines a session transcript may hold: a user message, an assistant
\* message with text, an assistant message with thinking only, a toolResult
\* message, a record that is not a message, a line that is not JSON, a JSON
\* value that is not an object, and a user message whose content is the
\* plain string " "
LineKinds == {"user", "assistant", "thinking", "toolResult", "noise", "badjson",
              "nonobject", "blank"}

LineBytes(kind) == IF kind \in {"noise", "badjson", "nonobject"} THEN 1 ELSE 2

RECURSIVE Size(_)
Size(tr) == IF tr = <<>> THEN 0 ELSE LineBytes(tr[Len(tr)]) + Size(SubSeq(tr, 1, Len(tr) - 1))

\* byte offset of line k
LineStart(tr, k) == Size(SubSeq(tr, 1, k - 1))

NoState == [offset |-> 0, size |-> 0, present |-> FALSE]

\* no line is being written
NoTail == [kind |-> "none", bytes |-> 0]

\* transcript.stat().st_size: the complete lines and the bytes of the line
\* being written
FileSize(tr, t) == Size(tr) + t.bytes

\* extract_text_and_thinking of the line's message content
extract_text_and_thinking(kind) ==
    IF kind = "user" THEN [text |-> "A", thinking |-> ""]
    ELSE IF kind = "assistant" THEN [text |-> "X", thinking |-> ""]
    ELSE IF kind = "thinking" THEN [text |-> "", thinking |-> "T"]
    ELSE IF kind = "blank" THEN [text |-> " ", thinking |-> ""]
    ELSE [text |-> "", thinking |-> ""]

\* the line is a message of role user or assistant with text, or with
\* thinking when thinking is included
Qualifies(kind, include_thinking) ==
    /\ kind \in {"user", "assistant", "thinking", "blank"}
    /\ LET c == extract_text_and_thinking(kind)
       IN c.text # "" \/ (include_thinking /\ c.thinking # "")

\* parse_new_messages that reports the offset it started from
parse_new_messages_no_advance(tr, start_offset, include_thinking) ==
    LET read == {k \in 1..Len(tr) : LineStart(tr, k) >= start_offset}
        kept == SelectSeq([k \in 1..Len(tr) |-> k],
                          LAMBDA k : k \in read /\ Qualifies(tr[k], include_thinking))
    IN [crashed |-> \E k \in read : tr[k] = "nonobject",
        msgs |-> [j \in 1..Len(kept) |->
                    [role |-> IF tr[kept[j]] \in {"user", "blank"} THEN "user" ELSE "assistant",
                     text |-> extract_text_and_thinking(tr[kept[j]]).text,
                     thinking |-> IF include_thinking
                                    THEN extract_text_and_thinking(tr[kept[j]]).thinking
                                    ELSE "",
                     timestamp |-> kept[j]]],
        end_offset |-> start_offset]

\* parse_new_messages: the lines from byte start_offset on are read to the
\* end of the file (a line that start_offset cuts in two is not JSON and is
\* skipped); a JSON value without .get raises; end_offset is f.tell()
parse_new_messages(tr, start_offset, include_thinking) ==
    LET read == {k \in 1..Len(tr) : LineStart(tr, k) >= start_offset}
        kept == SelectSeq([k \in 1..Len(tr) |-> k],
                          LAMBDA k : k \in read /\ Qualifies(tr[k], include_thinking))
    IN [crashed |-> \E k \in read : tr[k] = "nonobject",
        msgs |-> [j \in 1..Len(kept) |->
                    [role |-> IF tr[kept[j]] \in {"user", "blank"} THEN "user" ELSE "assistant",
                     text |-> extract_text_and_thinking(tr[kept[j]]).text,
                     thinking |-> IF include_thinking
                                    THEN extract_text_and_thinking(tr[kept[j]]).thinking
                                    ELSE "",
                     timestamp |-> kept[j]]],
        end_offset |-> IF start_offset > Size(tr) THEN start_offset ELSE Size(tr)]

\* the payloads append_to_redis pushes to mem:{user_id}
MemPayloads(msgs) ==
    [k \in 1..Len(msgs) |-> Entry(msgs[k].role, msgs[k].text, msgs[k].timestamp, NoTurn)]

\* the payloads append_to_redis pushes to mem_thinking:{user_id}
ThinkingPayloads(msgs) ==
    LET with == SelectSeq(msgs, LAMBDA m : m.thinking # "")
    IN [k \in 1..Len(with) |->
          [role |-> with[k].role, thinking |-> with[k].thinking,
           timestamp |-> with[k].timestamp]]

\* the agent writes one more line to the session transcript
WriteTranscript(kind) ==
    /\ tail = NoTail
    /\ Len(transcript) < MaxLines
    /\ transcript' = Append(transcript, kind)
    /\ cap' = [cap EXCEPT !.calls = 0]
    /\ UNCHANGED <<buffer, store, clock, faults, dup_query_failed, promoVars,
                   factVars, state_file, mem_thinking, searchVars, parseVars, auxVars>>

\* the agent's write of a two-byte line reaches the file in two parts: the
\* first byte is in the file, the rest and the newline are not yet
BeginLine(kind) ==
    /\ tail = NoTail
    /\ LineBytes(kind) = 2
    /\ Len(transcript) < MaxLines
    /\ tail' = [kind |-> kind, bytes |-> 1]
    /\ UNCHANGED <<baseVars, auxNotWriter>>

\* the rest of the line being written reaches the file
CompleteLine ==
    /\ tail # NoTail
    /\ transcript' = Append(transcript, tail.kind)
    /\ tail' = NoTail
    /\ cap' = [cap EXCEPT !.calls = 0]
    /\ UNCHANGED <<buffer, store, clock, faults, dup_query_failed, promoVars,
                   factVars, state_file, mem_thinking, searchVars, parseVars,
                   auxNotWriter>>

\* main: load_state, the no-changes gate, parse_new_messages, the three
\* paths that save the checkpoint, append_to_redis. redisUp is the number of
\* messages Redis takes before it stops answering (a failing rpush raises
\* and ends the run before save_state); saveOk = FALSE: the state file
\* cannot be written, which save_state only warns about
Capture(u, dry, include_thinking, redisUp, saveOk) ==
    LET last_offset == state_file.offset
        last_size == state_file.size
        cur_size == FileSize(transcript, tail)
        parsed == parse_new_messages(transcript, last_offset, include_thinking)
        messages == parsed.msgs
        \* after the last whole line the bytes of a line being written are
        \* read as a line that is not JSON and skipped; f.tell() is then
        \* past them
        end_offset == IF parsed.end_offset = Size(transcript) THEN cur_size
                      ELSE parsed.end_offset
        new_state == [offset |-> end_offset, size |-> cur_size, present |-> TRUE]
        saved == IF saveOk THEN new_state ELSE state_file
        taken == IF redisUp < Len(messages) THEN SubSeq(messages, 1, redisUp)
                 ELSE messages
        ran(outcome, pushes) ==
            [calls |-> IF cap.calls < 2 THEN cap.calls + 1 ELSE 2,
             appended |-> pushes, size0 |-> state_file.size, outcome |-> outcome,
             user_id |-> u]
    IN IF cur_size = last_size /\ last_offset > 0
         THEN /\ cap' = ran("no_changes", 0)
              /\ UNCHANGED <<buffer, mem_thinking, state_file>>
       ELSE IF parsed.crashed
         THEN /\ cap' = ran("crashed", 0)
              /\ UNCHANGED <<buffer, mem_thinking, state_file>>
       ELSE IF messages = <<>>
         THEN /\ cap' = ran("no_messages", 0)
              /\ state_file' = saved
              /\ UNCHANGED <<buffer, mem_thinking>>
       ELSE IF dry
         THEN /\ cap' = ran("dry_run", 0)
              /\ state_file' = saved
              /\ UNCHANGED <<buffer, mem_thinking>>
       ELSE /\ Len(buffer[u]) + Len(taken) <= MaxClock
            /\ buffer' = [buffer EXCEPT ![u] = RPushAll(@, MemPayloads(taken))]
            /\ mem_thinking' = [mem_thinking EXCEPT ![u] = RPushAll(@, ThinkingPayloads(taken))]
            /\ IF Len(taken) < Len(messages)
                 THEN /\ cap' = ran("crashed", Len(taken) + Len(ThinkingPayloads(taken)))
                      /\ UNCHANGED state_file
                 ELSE /\ cap' = ran("appended", Len(taken) + Len(ThinkingPayloads(taken)))
                      /\ state_file' = saved

CaptureRun(u, dry, include_thinking, redisUp, saveOk) ==
    /\ Capture(u, dry, include_thinking, redisUp, saveOk)
    /\ UNCHANGED <<store, clock, faults, dup_query_failed, promoVars, factVars,
                   transcript, searchVars, parseVars, auxVars>>

\* ------------------------------------------------------------------ search_mem.py, search_memories.py
\* the search queries and the values of --limit
Queries == {"a", "X"}

Limits == {1, 2}

\* str.lower()
Lower(str) ==
    IF str = "A" THEN "a" ELSE IF str = "B" THEN "b" ELSE IF str = "X" THEN "x" ELSE str

\* query_lower in content, for contents of at most one character
Contains(content, query_lower) == query_lower = "" \/ query_lower = content

\* found before any search. The record of a search holds its arguments, the
\* buffer it read (list), what search_redis returned (redis), the points of
\* the Qdrant response (qdrant), the output (shown), whether access tracking
\* was asked for and every update request answered (track, updOk), and the
\* access counts before the search (access0)
NoSearch ==
    [by |-> "none", query |-> "", limit |-> 0, list |-> <<>>, redis |-> <<>>,
     qdrant |-> <<>>, shown |-> <<>>, track |-> FALSE, updOk |-> TRUE,
     access0 |-> EmptyBag, exitCode |-> -1]

\* sorted(..., reverse=True) / list.sort(reverse=True) by the key K: stable,
\* so results with equal keys keep their order
SortDesc(s, K(_)) ==
    LET rank(k) == 1 + Cardinality({j \in 1..Len(s) :
                        \/ K(s[j]) > K(s[k])
                        \/ K(s[j]) = K(s[k]) /\ j < k})
    IN [n \in 1..Len(s) |-> s[CHOOSE k \in 1..Len(s) : rank(k) = n]]

\* search_redis: the entries of mem:{user_id}, head first, whose lowered
\* content contains the lowered query; sorted by 'turn' descending, which
\* raises TypeError when two or more matches are compared and one has no
\* 'turn' (None): the except branch then returns []; cut to limit
search_redis(list, query, limit, redisOk) ==
    LET hits == SelectSeq(list, LAMBDA e : Contains(Lower(e.content), Lower(query)))
        matches == [k \in 1..Len(hits) |->
                      [source |-> "redis", turn |-> hits[k].turn, role |-> hits[k].role,
                       content |-> hits[k].content, timestamp |-> hits[k].timestamp,
                       score |-> 0, ai_response |-> ""]]
        sorted == SortDesc(matches, LAMBDA m : m.turn)
    IN IF ~redisOk \/ list = <<>> THEN <<>>
       ELSE IF Len(matches) >= 2 /\ \E k \in 1..Len(matches) : matches[k].turn = NoTurn
         THEN <<>>
       ELSE SubSeq(sorted, 1, IF limit < Len(sorted) THEN limit ELSE Len(sorted))

\* the similarity Qdrant computes between the query and a point, in 1/10000
Similarity(query, p) ==
    IF \E k \in DOMAIN p.text : Lower(p.text[k]) = Lower(query)
      THEN (IF p.source_type = "system" THEN 9004 ELSE 9001)
    ELSE IF p.source_type = "system" THEN 5000 ELSE 1000

\* round(score, 3), in 1/1000
Round3(score) == (score + 5) \div 10

\* the answers of points/search: the limit best-scoring candidates, in an
\* order the caller does not rely on
SearchResponses(cands, query, limit) ==
    LET n == IF limit < Cardinality(cands) THEN limit ELSE Cardinality(cands)
    IN {r \in [1..n -> cands] :
          /\ \A a, b \in 1..n : r[a] = r[b] => a = b
          /\ \A a \in 1..n : \A y \in cands \ {r[b] : b \in 1..n} :
                Similarity(query, r[a]) >= Similarity(query, y)}

\* search_mem.search_qdrant: the matches built from the response
search_qdrant(resp, query) ==
    [k \in 1..Len(resp) |->
       [source |-> "qdrant", score |-> Round3(Similarity(query, resp[k])),
        turn |-> NoTurn, role |-> "",
        content |-> IF resp[k].source_type = "system" THEN resp[k].text[1] ELSE "",
        timestamp |-> 0,
        ai_response |-> IF resp[k].source_type = "system" THEN resp[k].text[2] ELSE ""]]

\* an output that lists the Qdrant results first
DisplayQdrantFirst(all_results) ==
    SortDesc(SelectSeq(all_results, LAMBDA r : r.source = "qdrant"), LAMBDA r : r.score)
        \o SelectSeq(all_results, LAMBDA r : r.source = "redis")

\* search_mem.main, the display: the Redis results as returned, then the
\* Qdrant results sorted by score descending
DisplayOrder(all_results) ==
    SelectSeq(all_results, LAMBDA r : r.source = "redis")
        \o SortDesc(SelectSeq(all_results, LAMBDA r : r.source = "qdrant"),
                    LAMBDA r : r.score)

\* search_mem.main: Redis unless --qdrant-only, Qdrant unless --redis-only
\* (embedOk, searchOk: the embedding and the search request are answered),
\* then the display; no access statistics are written
SearchMem(u, query, limit, redis_only, qdrant_only, redisOk, embedOk, searchOk) ==
    \E resp \in SearchResponses({p \in BagToSet(store) : p.user_id = u}, query, limit) :
        LET redis_results == IF qdrant_only THEN <<>>
                             ELSE search_redis(buffer[u], query, limit, redisOk)
            qdrant_results == IF redis_only \/ ~embedOk \/ ~searchOk THEN <<>>
                              ELSE search_qdrant(resp, query)
            all_results == redis_results \o qdrant_results
        IN /\ found' = [by |-> "search_mem", query |-> query, limit |-> limit,
                        list |-> IF qdrant_only THEN <<>> ELSE buffer[u],
                        track |-> TRUE, updOk |-> TRUE, access0 |-> access,
                        redis |-> redis_results,
                        qdrant |-> IF redis_only \/ ~embedOk \/ ~searchOk THEN <<>>
                                   ELSE resp,
                        shown |-> DisplayOrder(all_results), exitCode |-> 0]
           /\ UNCHANGED <<buffer, store, clock, faults, dup_query_failed, promoVars,
                          factVars, captureVars, access, parseVars, auxVars>>

\* update_access_stats for the results whose update request is answered
RECURSIVE Touch(_, _, _, _)
Touch(acc, resp, upd, k) ==
    IF k > Len(resp) THEN acc
    ELSE Touch(IF upd[k] THEN acc (+) SetToBag({resp[k]}) ELSE acc, resp, upd, k + 1)

\* search_memories.py: get_embedding (exit 1 when it fails), search_memories
\* over the whole collection, update_access_stats for each result unless
\* --no-track (upd[k]: the update of result k is answered), the output
SearchMemories(query, limit, track, embedOk, searchOk) ==
    \E resp \in SearchResponses(BagToSet(store), query, limit) :
      \E upd \in [1..Len(resp) -> BOOLEAN] :
        LET results == IF embedOk /\ searchOk THEN resp ELSE <<>>
            acc == IF track THEN Touch(access, results, upd, 1) ELSE access
        IN /\ BagCardinality(acc) <= MaxAccess
           /\ access' = acc
           /\ found' = [by |-> "search_memories", query |-> query, limit |-> limit,
                        list |-> <<>>, track |-> track,
                        updOk |-> \A k \in 1..Len(results) : upd[k],
                        access0 |-> access, redis |-> <<>>,
                        qdrant |-> results,
                        shown |-> [k \in 1..Len(results) |->
                                     [source |-> "qdrant",
                                      score |-> Similarity(query, results[k]),
                                      turn |-> NoTurn, role |-> "",
                                      content |-> results[k].text[1], timestamp |-> 0,
                                      ai_response |-> ""]],
                        exitCode |-> IF embedOk THEN 0 ELSE 1]
           /\ UNCHANGED <<buffer, store, clock, faults, dup_query_failed, promoVars,
                          factVars, captureVars, parseVars, auxVars>>

\* the search_memories.py processes that may run at the same time
Searchers == {1, 2}

\* a process that holds no search response
NoResponse == [results |-> <<>>, counts |-> <<>>, done |-> 0]

\* the payload update of points/payload: access_count of point p becomes n
SetCount(acc, p, n) ==
    [x \in (DOMAIN acc) \cup {p} |-> IF x = p THEN n ELSE acc[x]]

\* the results the search processes hold and have not updated yet
Outstanding ==
    LET left(s) == Len(searcher[s].results) - searcher[s].done
    IN left(1) + left(2)

\* search_memories, the request: the response carries each result's payload,
\* with the access_count the point has at the time of the search
BeginSearch(s, query, limit, track) ==
    /\ searcher[s] = NoResponse
    /\ \E resp \in SearchResponses(BagToSet(store), query, limit) :
         /\ BagCardinality(touched) + Outstanding + Len(resp) <= MaxAccess
         /\ searcher' = [searcher EXCEPT ![s] =
                IF track
                  THEN [results |-> resp,
                        counts |-> [k \in 1..Len(resp) |-> CopiesIn(resp[k], access)],
                        done |-> 0]
                  ELSE NoResponse]
    /\ UNCHANGED <<baseVars, auxNotTrack, touched>>

\* search_memories, one turn of the tracking loop: update_access_stats writes
\* access_count = the response's access_count + 1 for the next result
\* (ok: the request is answered)
UpdateAccess(s, ok) ==
    LET k == searcher[s].done + 1
        point == searcher[s].results[k]
        access_count == searcher[s].counts[k] + 1
    IN /\ searcher[s].done < Len(searcher[s].results)
       /\ access' = IF ok THEN SetCount(access, point, access_count) ELSE access
       /\ touched' = IF ok THEN touched (+) SetToBag({point}) ELSE touched
       /\ searcher' = [searcher EXCEPT ![s] =
              IF k = Len(@.results) THEN NoResponse ELSE [@ EXCEPT !.done = k]]
       /\ UNCHANGED <<buffer, store, clock, faults, dup_query_failed, promoVars,
                      factVars, captureVars, found, parseVars, auxNotTrack>>

\* ------------------------------------------------------------------ specifications
\* ---------------------------------------------------------------------
\* extract_facts.py: parse_markdown_sections
\*
\* A line of the daily log after strip() is its shape and whether it
\* contains "**".  The shapes are the prefixes and substrings the parser
\* tests for:
\*   "fence"       starts with ```
\*   "blank"       empty
\*   "header"      starts with "## "
\*   "title"       starts with "# "
\*   "subheader"   starts with "### "
\*   "bullet"      starts with "- ", "* " or "+ ", more than 3 characters follow
\*   "shortbullet" a bullet followed by at most 3 characters
\*   "numbered"    matches ^\d+\.\s, more than 3 characters follow
\*   "url"         contains http:// or https://, under 300 characters
\*   "keyvalue"    a key under 50 characters, a colon; under 200 characters;
\*                 does not start with "**"
\*   "table"       contains "|", has a cell that is not a separator
\*   "text"        none of the above, 5 to 300 characters
\* A line that starts with "**" and holds a colon is a "text" line with bold.
LogLines ==
    [shape : {"bullet", "numbered", "url", "keyvalue", "table", "text"}, bold : BOOLEAN]
    \cup [shape : {"fence", "blank", "header", "title", "subheader", "shortbullet"},
          bold : {FALSE}]

NotParsed == [done |-> FALSE, facts |-> <<>>]

Fact(rule, importance, source_type) ==
    [rule |-> rule, importance |-> importance, source_type |-> source_type]

NoParse == [facts |-> <<>>, in_code_block |-> FALSE, code_block_content |-> 0,
            current_section_content |-> 0]

\* the accumulated free text becomes one paragraph fact; no accumulated line
\* contains "**", the bold rule takes those first
flush_section_content(st) ==
    IF st.current_section_content = 0 THEN st
    ELSE [st EXCEPT !.facts = Append(@, Fact("paragraph", "medium", "inferred")),
                    !.current_section_content = 0]

ListImportanceAlwaysHigh(has_bold) == "high"

\* "high" if "**" in fact_text else "medium"
ListImportance(has_bold) == IF has_bold THEN "high" ELSE "medium"

Emit(st, fact) == [st EXCEPT !.facts = Append(@, fact)]

\* one iteration of the loop over the lines; idx is the line's index, from 1
ParseLine(st, line, idx) ==
    IF line.shape = "fence" THEN
        IF st.in_code_block
        THEN [(IF st.code_block_content > 0
               THEN Emit(st, Fact("code-block", "medium", "inferred")) ELSE st)
              EXCEPT !.in_code_block = FALSE, !.code_block_content = 0]
        ELSE [flush_section_content(st) EXCEPT !.in_code_block = TRUE]
    ELSE IF st.in_code_block THEN
        [st EXCEPT !.code_block_content = @ + 1]
    ELSE IF line.shape = "blank" THEN
        flush_section_content(st)
    ELSE IF line.shape = "header" THEN
        Emit(flush_section_content(st), Fact("section-header", "medium", "inferred"))
    ELSE IF line.shape = "title" /\ idx = 1 THEN
        st
    ELSE IF line.shape = "shortbullet" THEN
        flush_section_content(st)
    ELSE IF line.shape \in {"bullet", "numbered"} THEN
        Emit(flush_section_content(st),
             Fact(line.shape, ListImportance(line.bold), "inferred"))
    ELSE IF line.shape = "url" THEN
        Emit(st, Fact("url", "medium", "inferred"))
    ELSE IF line.shape = "keyvalue" THEN
        Emit(st, Fact("key-value", "medium", "inferred"))
    ELSE IF line.bold THEN
        Emit(flush_section_content(st), Fact("critical-rule", "high", "user"))
    ELSE IF line.shape = "table" THEN
        Emit(st, Fact("table-row", "medium", "inferred"))
    ELSE
        [st EXCEPT !.current_section_content = @ + 1]

RECURSIVE ParseLines(_, _, _)
ParseLines(lines, idx, st) ==
    IF idx > Len(lines) THEN st
    ELSE ParseLines(lines, idx + 1, ParseLine(st, lines[idx], idx))

parse_markdown_sections(lines) ==
    flush_section_content(ParseLines(lines, 1, NoParse)).facts

\* the day's log is written before the extraction reads it
WriteLog(line) ==
    /\ ~log_facts.done
    /\ Len(log) < MaxLogLines
    /\ log' = Append(log, line)
    /\ UNCHANGED <<buffer, store, clock, faults, dup_query_failed, promoVars,
                   factVars, captureVars, searchVars, log_facts, auxVars>>

ParseLog ==
    /\ ~log_facts.done
    /\ log_facts' = [done |-> TRUE, facts |-> parse_markdown_sections(log)]
    /\ UNCHANGED <<buffer, store, clock, faults, dup_query_failed, promoVars,
                   factVars, captureVars, searchVars, log, auxVars>>

\* ------------------------------------------------------------------ hb_append.py: main
NoHbRun == [runs |-> 0, appended |-> 0, lines |-> 0, prev_lines |-> 0, exitCode |-> -1]

\* parse_turns_since(last_turn_num): the whole transcript is read from its
\* first line; every user or assistant message with truthy content is a turn,
\* numbered from last_turn_num + 1; a JSON value without .get raises into
\* the outer except, which returns []
parse_turns_since(tr, last_turn_num) ==
    LET kept == SelectSeq([k \in 1..Len(tr) |-> k],
                          LAMBDA k : tr[k] \in {"user", "assistant", "blank"})
    IN IF \E k \in 1..Len(tr) : tr[k] = "nonobject" THEN <<>>
       ELSE [j \in 1..Len(kept) |->
               Entry(IF tr[kept[j]] = "assistant" THEN "assistant" ELSE "user",
                     extract_text_and_thinking(tr[kept[j]]).text,
                     kept[j], last_turn_num + j)]

\* main: get_last_turn, parse_turns_since, append_to_redis (LPUSH per turn;
\* redisUp is the number of pushes Redis takes before it stops answering, and
\* a failed push makes the count 0), save_last_turn of the highest turn number
HbMain(u, redisUp) ==
    LET last_turn == mem_last_turn
        new_turns == parse_turns_since(transcript, last_turn)
        taken == IF redisUp < Len(new_turns) THEN SubSeq(new_turns, 1, redisUp)
                 ELSE new_turns
        count == IF redisUp < Len(new_turns) THEN 0 ELSE Len(new_turns)
        ran(pushes, code) ==
            [runs |-> IF hb.runs < 2 THEN hb.runs + 1 ELSE 2, appended |-> pushes,
             lines |-> Len(transcript), prev_lines |-> hb.lines, exitCode |-> code]
    IN /\ Len(buffer[u]) + Len(taken) <= MaxClock
       /\ IF new_turns = <<>>
            THEN /\ hb' = ran(0, 0)
                 /\ UNCHANGED <<buffer, mem_last_turn>>
            ELSE /\ buffer' = [buffer EXCEPT ![u] = LPushAll(@, taken)]
                 /\ IF count > 0
                      THEN /\ mem_last_turn' = last_turn + Len(new_turns)
                           /\ hb' = ran(Len(taken), 0)
                      ELSE /\ hb' = ran(Len(taken), 1)
                           /\ UNCHANGED mem_last_turn
       /\ UNCHANGED <<store, clock, faults, dup_query_failed, promoVars, factVars,
                      captureVars, searchVars, parseVars, auxNotHb>>

\* ------------------------------------------------------------------ mem_retrieve.py
\* get_recent_turns: LRANGE key 0 limit-1, then list.reverse(); a Redis
\* error returns []
get_recent_turns(list, limit, redisOk) ==
    IF ~redisOk THEN <<>>
    ELSE Reverse(SubSeq(list, 1, IF limit < Len(list) THEN limit ELSE Len(list)))

\* main: the turns get_recent_turns returns are displayed in its order
MemRetrieve(u, limit, redisOk) ==
    /\ found' = [NoSearch EXCEPT !.by = "mem_retrieve", !.limit = limit,
                                 !.list = buffer[u],
                                 !.shown = get_recent_turns(buffer[u], limit, redisOk),
                                 !.access0 = access, !.exitCode = 0]
    /\ UNCHANGED <<buffer, store, clock, faults, dup_query_failed, promoVars,
                   factVars, captureVars, access, parseVars, auxVars>>

\* ------------------------------------------------------------------ metadata_and_compact.py
DEFAULT_MAX_ITEMS == 200

\* the values of --max-items
MaxItemsChoices == {1, DEFAULT_MAX_ITEMS}

\* 'since' and 'at' are the producers' clock at the previous run that saved
\* its state and at this run
NoCompact == [ran |-> FALSE, user_id |-> USER_ID, saved |-> FALSE, turns |-> <<>>,
              list |-> <<>>, since |-> 0, at |-> 0]

\* redis_get_new_items: LLEN, and when the list is longer than last_len,
\* LRANGE last_len .. min(cur_len - 1, last_len + max_items - 1)
redis_get_new_items(list, max_items, last_len) ==
    LET cur_len == Len(list)
        end == IF cur_len - 1 < last_len + max_items - 1
                 THEN cur_len - 1 ELSE last_len + max_items - 1
    IN [turns |-> IF cur_len <= last_len THEN <<>>
                  ELSE SubSeq(list, last_len + 1, end + 1),
        cur_len |-> cur_len]

\* main: load_state, redis_get_new_items, the LLM call, the embedding and the
\* upsert of the metadata point (callsOk = FALSE: one of them raised or the
\* upsert was not ok), then save_state with last_redis_len = cur_len
Compact(u, max_items, callsOk) ==
    LET last_len == meta_state[u]
        got == redis_get_new_items(buffer[u], max_items, last_len)
        saves == got.turns # <<>> /\ callsOk
    IN /\ compact' = [ran |-> TRUE, user_id |-> u, saved |-> saves,
                      turns |-> got.turns, list |-> buffer[u],
                      since |-> IF compact.saved THEN compact.at ELSE compact.since,
                      at |-> clock]
       /\ meta_state' = IF saves THEN [meta_state EXCEPT ![u] = got.cur_len]
                        ELSE meta_state
       /\ UNCHANGED <<baseVars, auxNotCompact>>

\* ------------------------------------------------------------------ task-queue: add_task.py, heartbeat_worker.py
Priorities == {"high", "medium", "low"}

NoTask == [id |-> 0, priority |-> "none"]

NoWorkerRun == [ran |-> FALSE, task |-> NoTask, pending0 |-> <<>>, exitCode |-> -1]

\* add_task: the task hash is written, then its id goes to tasks:pending,
\* LPUSH for priority high, RPUSH otherwise
add_task(list, task) ==
    IF task.priority = "high" THEN <<task>> \o list ELSE Append(list, task)

AddTask(priority) ==
    /\ next_task < MaxTasks
    /\ next_task' = next_task + 1
    /\ pending' = add_task(pending, [id |-> next_task + 1, priority |-> priority])
    /\ UNCHANGED <<baseVars, auxNotQueue, completed, worker>>

\* get_pending_task: RPOP tasks:pending
get_pending_task(list) ==
    IF list = <<>> THEN [task |-> NoTask, rest |-> <<>>]
    ELSE [task |-> list[Len(list)], rest |-> SubSeq(list, 1, Len(list) - 1)]

\* heartbeat_worker.main: no task is active between runs (mark_completed and
\* mark_failed both take the task off tasks:active); the next pending task
\* is popped, executed (ok or not) and pushed to tasks:completed
Worker(ok) ==
    LET got == get_pending_task(pending)
    IN /\ pending' = got.rest
       /\ IF got.task = NoTask
            THEN /\ worker' = [ran |-> TRUE, task |-> NoTask, pending0 |-> pending,
                               exitCode |-> 0]
                 /\ UNCHANGED completed
            ELSE /\ worker' = [ran |-> TRUE, task |-> got.task, pending0 |-> pending,
                               exitCode |-> IF ok THEN 0 ELSE 1]
                 /\ completed' = <<got.task>> \o completed
       /\ UNCHANGED <<baseVars, auxNotQueue, next_task>>

Init ==
    /\ buffer = [u \in AllUsers |-> <<>>]
    /\ store = EmptyBag
    /\ clock = 0
    /\ faults = 0
    /\ dup_query_failed = FALSE
    /\ pc = "idle"
    /\ user_id = USER_ID
    /\ dry_run = FALSE
    /\ QDRANT_AVAILABLE = TRUE
    /\ turns = <<>>
    /\ turns_sorted = <<>>
    /\ i = 0
    /\ attempted = 0
    /\ success_count = 0
    /\ qdrant_success = FALSE
    /\ recent_hashes = {}
    /\ calls = <<>>
    /\ store0 = EmptyBag
    /\ cleared = FALSE
    /\ exitCode = -1
    /\ prev = <<>>
    /\ factStore = EmptyBag
    /\ fx = [ran |-> FALSE, dry_run |-> FALSE, new_facts |-> <<>>, uploaded |-> 0,
             failed |-> 0, exitCode |-> -1, facts |-> <<>>, checked |-> FALSE,
             prev |-> [ran |-> FALSE, dry_run |-> FALSE, facts |-> <<>>, failed |-> 0]]
    /\ transcript = <<>>
    /\ state_file = NoState
    /\ mem_thinking = [u \in AllUsers |-> <<>>]
    /\ cap = [calls |-> 0, appended |-> 0, size0 |-> 0, outcome |-> "none",
              user_id |-> USER_ID]
    /\ found = NoSearch
    /\ access = EmptyBag
    /\ log = <<>>
    /\ log_facts = NotParsed
    /\ mem_last_turn = 0
    /\ hb = NoHbRun
    /\ meta_state = [u \in AllUsers |-> 0]
    /\ compact = NoCompact
    /\ pending = <<>>
    /\ completed = <<>>
    /\ next_task = 0
    /\ worker = NoWorkerRun
    /\ tail = NoTail
    /\ searcher = [s \in Searchers |-> NoResponse]
    /\ touched = EmptyBag
    /\ storer = [s \in Storers |-> NoExchange]

\* Promotion with failing backends, fed by Capture in transcript order
Next ==
    \/ \E u \in Users : CaptureAppend(u, FALSE)
    \/ \E u \in Users, dry \in BOOLEAN, avail \in BOOLEAN, readOk \in BOOLEAN :
         StartPromotion(u, dry, avail, readOk)
    \/ StoreTurn(Outcomes)
    \/ \E clearOk \in BOOLEAN : Finish(clearOk)
    \/ Exit
    \/ \E u \in Users : DailyBackupTurn(u)

Spec == Init /\ [][Next]_vars

\* Promotion with healthy backends, fed by the three producers in any
\* physical order and with any timestamps
NextPair ==
    \/ \E u \in Users : HbAppend(u, TRUE)
    \/ \E u \in Users : SaveMem(u, TRUE)
    \/ \E u \in Users : CaptureAppend(u, TRUE)
    \/ \E u \in Users : StartPromotion(u, FALSE, TRUE, TRUE)
    \/ StoreTurn({AllOk})
    \/ Finish(TRUE)
    \/ Exit

SpecPair == Init /\ [][NextPair]_vars

\* fact extraction runs over the daily log, with failing backends
NextFacts ==
    \E dry \in BOOLEAN, batch_size \in BatchSizes, queryOk \in BOOLEAN :
        ExtractFacts(dry, batch_size, queryOk)

SpecFacts == Init /\ [][NextFacts]_vars

\* Capture runs over a growing transcript, Redis and the state file writable
NextCapture ==
    \/ \E kind \in LineKinds : WriteTranscript(kind)
    \/ \E u \in Users, dry \in BOOLEAN, include_thinking \in BOOLEAN :
         CaptureRun(u, dry, include_thinking, MaxLines, TRUE)

SpecCapture == Init /\ [][NextCapture]_vars

\* Capture runs for two users over the one session transcript, and
\* Promotion runs for the first of them; every backend answering
NextUsers ==
    \/ \E kind \in LineKinds : WriteTranscript(kind)
    \/ \E u \in AllUsers : CaptureRun(u, FALSE, FALSE, MaxLines, TRUE)
    \/ StartPromotion(USER_ID, FALSE, TRUE, TRUE)
    \/ StoreTurn({AllOk})
    \/ Finish(TRUE)
    \/ Exit

SpecUsers == Init /\ [][NextUsers]_vars

\* one user's Capture runs interleaved with the steps of that user's
\* Promotion runs; every backend answering
NextRace ==
    \/ \E kind \in LineKinds : WriteTranscript(kind)
    \/ CaptureRun(USER_ID, FALSE, FALSE, MaxLines, TRUE)
    \/ StartPromotion(USER_ID, FALSE, TRUE, TRUE)
    \/ StoreTurn({AllOk})
    \/ Finish(TRUE)
    \/ Exit

SpecRace == Init /\ [][NextRace]_vars

\* hybrid search over a buffer written by hb_append and a store written by
\* the daily backup, all backends answering
NextSearch ==
    \/ \E u \in Users : HbAppend(u, FALSE)
    \/ \E u \in Users : DailyBackup(u, {AllOk}, {TRUE})
    \/ \E u \in Users, query \in Queries, limit \in Limits :
         SearchMem(u, query, limit, FALSE, FALSE, TRUE, TRUE, TRUE)

SpecSearch == Init /\ [][NextSearch]_vars

\* buffer-only search over a buffer written by hb_append and cron_capture,
\* Redis answering
NextBufferSearch ==
    \/ \E u \in Users : HbAppend(u, FALSE)
    \/ \E u \in Users : CaptureAppend(u, FALSE)
    \/ \E u \in Users, query \in Queries, limit \in Limits :
         SearchMem(u, query, limit, TRUE, FALSE, TRUE, TRUE, TRUE)

SpecBufferSearch == Init /\ [][NextBufferSearch]_vars

\* vector searches over a store written by the daily backup, with access
\* statistics and failing requests
NextAccess ==
    \/ \E u \in Users : DailyBackup(u, {AllOk}, {TRUE})
    \/ \E query \in Queries, limit \in Limits, track \in BOOLEAN,
          embedOk \in BOOLEAN, searchOk \in BOOLEAN :
         SearchMemories(query, limit, track, embedOk, searchOk)
    \/ \E u \in Users, query \in Queries, limit \in Limits,
          embedOk \in BOOLEAN, searchOk \in BOOLEAN :
         SearchMem(u, query, limit, FALSE, TRUE, TRUE, embedOk, searchOk)

SpecAccess == Init /\ [][NextAccess]_vars

\* the daily log, written line by line and then parsed
NextParse ==
    \/ \E line \in LogLines : WriteLog(line)
    \/ ParseLog

SpecParse == Init /\ [][NextParse]_vars


\* ------------------------------------------------------------------ what the claims speak of
Range(f) == {f[x] : x \in DOMAIN f}

\* the run has returned from store_to_qdrant
Returned == pc \in {"finish", "done"}

\* a non-dry run that read a non-empty buffer and has ended
RunEnded == pc = "done" /\ ~dry_run /\ turns # <<>>

\* the source types of the points the store holds for (uid, hash)
TypesHeld(st, uid, hash) == {p.source_type : p \in Matching(st, uid, hash)}

\* the number of points the store holds for (uid, hash) of source type t
Copies(st, uid, hash, t) ==
    CountWhere(st, LAMBDA p : p.user_id = uid /\ p.content_hash = hash
                                /\ p.source_type = t)

\* the hashes of the store's points
HashesOf(st) == {<<p.user_id, p.content_hash>> : p \in BagToSet(st)}

Written == BagCardinality(store) - BagCardinality(store0)

CallHash(c) == get_content_hash(c.user_message, c.ai_response)

\* call k of the run ended with the exchange durably stored or a duplicate
Handled(k) ==
    /\ k <= Len(calls)
    /\ calls[k].skipped \/ calls[k].wrote = SourceTypes

\* the entries alternate user, assistant: n complete exchanges
CompleteExchanges(ts) ==
    /\ Len(ts) % 2 = 0
    /\ \A k \in 1..Len(ts) :
          ts[k].role = (IF k % 2 = 1 THEN "user" ELSE "assistant")

\* C1 (as the claim states it, for runs in which the storage module loaded
\* and the buffer held complete exchanges): the buffer is cleared only if
\* every exchange read was stored in full or skipped as a duplicate, and a run
\* in which an embed or upsert failed leaves the buffer as it was read and
\* exits non-zero.
C1_ClearOnlyIfAllStored ==
    (RunEnded /\ QDRANT_AVAILABLE /\ CompleteExchanges(turns_sorted)) =>
        /\ cleared => \A k \in 1..Cardinality(UserTurns(turns)) : Handled(k)
        /\ (\E k \in 1..Len(calls) : calls[k].failed # {}) =>
              (buffer[user_id] = turns /\ exitCode # 0)

\* C2 (as the claim states it): when the buffer key has been deleted, every
\* turn that was in the buffer has its content held by a Vector Store point.
C2_ClearAfterDurableStorage ==
    (pc = "done" /\ cleared) =>
        \A k \in 1..Len(turns) :
            \E p \in BagToSet(store) :
                p.user_id = user_id /\ turns[k].content \in Range(p.text)

\* C3 (as the claim states it): an exchange the run skips as a duplicate
\* because of what earlier runs left in the store has all three of its
\* MemoryPoints in the store.
C3_SkipOnlyIfFullyStored ==
    \A k \in 1..Len(calls) :
        (calls[k].skipped /\ Matching(store0, user_id, CallHash(calls[k])) # {}) =>
            TypesHeld(store, user_id, CallHash(calls[k])) = SourceTypes

\* C4 (as the claim states it): the store holds all three points of an
\* exchange or none of them, for both pipelines, and a call that reports
\* success wrote all three.
C4_AllThreeOrNone ==
    /\ \A uh \in HashesOf(store) : TypesHeld(store, uh[1], uh[2]) = SourceTypes
    /\ \A k \in 1..Len(calls) :
          (calls[k].success /\ ~calls[k].skipped) => calls[k].wrote = SourceTypes


\* ------------------------------------------------------------------ C5..C8
\* the exchanges the run has submitted to store_conversation_turn
Submitted == [k \in 1..Len(calls) |-> <<calls[k].user_message, calls[k].ai_response>>]

\* the distinct content hashes of the run's exchanges the store did not hold
\* when the run started
NewHashes ==
    {CallHash(calls[k]) : k \in 1..Len(calls)}
        \ {uh[2] : uh \in {x \in HashesOf(store0) : x[1] = user_id}}

\* a healthy run over n complete exchanges has cleared the buffer
HealthyRunEnded ==
    RunEnded /\ Healthy /\ cleared /\ CompleteExchanges(turns_sorted)

\* C5 (as the claim states it): the first run writes three points per
\* exchange, a second run on the same buffer contents writes none.
C5_ThreePerExchange ==
    HealthyRunEnded =>
        /\ (\A k \in 1..Len(calls) : Matching(store0, user_id, CallHash(calls[k])) = {})
              => Written = 3 * Len(calls)
        /\ prev = turns => Written = 0

\* C5 (amended): the first run writes three points per distinct exchange
\* (per content hash the store did not hold yet), a second run on the same
\* buffer contents writes none.
C5_ThreePerDistinctExchange ==
    HealthyRunEnded =>
        /\ Written = 3 * Cardinality(NewHashes)
        /\ prev = turns => Written = 0

\* C5 witness: a second healthy run on the contents the first one cleared
C5_SecondRunSeen ==
    HealthyRunEnded /\ prev = turns /\ Len(calls) >= 1 /\ Written = 0

PartnerOf(ts, n) ==
    LET cand == {j \in (n + 1)..Len(ts) :
                    /\ ts[j].role = "assistant"
                    /\ \A m \in (n + 1)..(j - 1) : ts[m].role # "user"}
    IN IF cand = {} THEN 0 ELSE CHOOSE j \in cand : \A m \in cand : j <= m

\* the exchanges the claim has Promotion submit: the user entries that have a
\* partner, each with its partner's content
RECURSIVE PairedExchanges(_, _)
PairedExchanges(ts, n) ==
    IF n > Len(ts) THEN <<>>
    ELSE IF ts[n].role = "user" /\ PartnerOf(ts, n) # 0
      THEN <<<<ts[n].content, ts[PartnerOf(ts, n)].content>>>> \o PairedExchanges(ts, n + 1)
    ELSE PairedExchanges(ts, n + 1)

\* C7 (as the claim states it): Promotion submits exactly the paired
\* exchanges; a user entry without a partner is not submitted.
C7_OnlyPairedExchangesStored ==
    (Returned /\ QDRANT_AVAILABLE /\ ~dry_run) =>
        Submitted = PairedExchanges(turns_sorted, 1)

\* the physical orders of the same entries
Orders(s) ==
    {[k \in 1..Len(s) |-> s[f[k]]] :
        f \in {g \in [1..Len(s) -> 1..Len(s)] :
                 \A a, b \in 1..Len(s) : g[a] = g[b] => a = b}}

\* ascending by (timestamp, turn), an entry without 'turn' counting as turn 0
Chronological(ts) ==
    \A k \in 1..(Len(ts) - 1) :
        \/ ts[k].timestamp < ts[k + 1].timestamp
        \/ ts[k].timestamp = ts[k + 1].timestamp /\ ts[k].turn <= ts[k + 1].turn

\* no two entries share (timestamp, turn)
DistinctKeys(ts) ==
    \A a, b \in 1..Len(ts) :
        (ts[a].timestamp = ts[b].timestamp /\ ts[a].turn = ts[b].turn) => a = b

PromotionReturned == Returned /\ QDRANT_AVAILABLE /\ ~dry_run /\ turns # <<>>

\* C8 (as the claim states it): whatever the physical order of the entries
\* read, the same exchanges are submitted, in (timestamp, turn) order.
C8_SameReplayForAnyOrder ==
    PromotionReturned =>
        /\ Chronological(turns_sorted)
        /\ \A p \in Orders(turns) : ExchangesFrom(SortTurns(p), 1) = Submitted

\* C8 (amended): the same holds when no two entries share (timestamp, turn);
\* entries with equal keys are replayed in their physical order.
C8_SameReplayForDistinctKeys ==
    PromotionReturned =>
        /\ Chronological(turns_sorted)
        /\ DistinctKeys(turns) =>
              \A p \in Orders(turns) : ExchangesFrom(SortTurns(p), 1) = Submitted

\* C8 witness: a run replayed a buffer whose physical order was not the
\* chronological one, and submitted two exchanges from it
C8_UnorderedBufferReplayed ==
    /\ PromotionReturned
    /\ DistinctKeys(turns)
    /\ ~Chronological(turns)
    /\ Len(Submitted) >= 2


\* ------------------------------------------------------------------ C9, C10
\* the Promotion run ended with every exchange it read stored in full or
\* skipped as a duplicate
PromotionCommitted ==
    /\ QDRANT_AVAILABLE
    /\ \A k \in 1..Cardinality(UserTurns(turns)) : Handled(k)

\* the extract_facts run ended with every fact it set out to store in the
\* Vector Store
FactsCommitted ==
    \A k \in 1..Len(fx.new_facts) : BagIn(fx.new_facts[k], factStore)

\* C9 (as the claim states it): a cron_backup run over a non-empty buffer and
\* an extract_facts run end with exit status 0 exactly when everything the
\* run set out to store is in the Vector Store.
C9_ExitStatusTellsCommit ==
    /\ RunEnded => (exitCode = 0 <=> PromotionCommitted)
    /\ (fx.ran /\ ~fx.dry_run) => (fx.exitCode = 0 <=> FactsCommitted)

\* C10: a Capture run that follows another one with no transcript line
\* written in between pushes nothing to Redis and leaves the checkpoint size
\* as it was.
C10_SecondCaptureAppendsNothing ==
    cap.calls >= 2 => (cap.appended = 0 /\ state_file.size = cap.size0)

\* C10 witness: the first of two runs appended the transcript's messages, the
\* second found no changes
C10_SecondCaptureSeen ==
    /\ cap.calls = 2
    /\ cap.outcome = "no_changes"
    /\ buffer[USER_ID] # <<>>
    /\ state_file.size = Size(transcript)


\* ------------------------------------------------------------------ C11, C12
\* C11 (as the claim states it): no Capture run ends in an uncaught
\* exception because of a transcript line, and a run that read the file to
\* its end has persisted the checkpoint for the bytes it read.
C11_MalformedLineNeverFatal ==
    cap.calls >= 1 =>
        /\ cap.outcome # "crashed"
        /\ (state_file.offset = Size(transcript) /\ state_file.size = Size(transcript))

\* text.strip() == ""
IsBlank(text) == text \in {"", " "}

\* C12 (as the claim states it): every entry of the Short-Term Buffer has
\* content that is neither empty nor whitespace only.
C12_BufferContentNonEmpty ==
    \A u \in DOMAIN buffer :
        \A k \in 1..Len(buffer[u]) : ~IsBlank(buffer[u][k].content)


\* ------------------------------------------------------------------ C13..C15
\* C13: in the output of a hybrid search every Redis match comes before
\* every Qdrant match, the Redis matches are those search_redis returned, the
\* Qdrant matches are those of the response, and the Qdrant matches are in
\* descending score order.
C13_BufferFirstThenByScore ==
    found.by = "search_mem" =>
        LET sh == found.shown
            q == search_qdrant(found.qdrant, found.query)
        IN /\ \A a, b \in 1..Len(sh) :
                 (sh[a].source = "redis" /\ sh[b].source = "qdrant") => a < b
           /\ \A a, b \in 1..Len(sh) :
                 (a < b /\ sh[a].source = "qdrant" /\ sh[b].source = "qdrant")
                     => sh[a].score >= sh[b].score
           /\ SubSeq(sh, 1, Len(found.redis)) = found.redis
           /\ Len(sh) = Len(found.redis) + Len(q)
           /\ \A k \in 1..Len(q) : \E a \in 1..Len(sh) : sh[a] = q[k]

\* C13 witness: a hybrid search showed two Redis matches and then two Qdrant
\* matches of different scores that the response held in ascending order
C13_HybridOutputSeen ==
    /\ found.by = "search_mem"
    /\ Len(found.redis) = 2
    /\ Len(found.qdrant) = 2
    /\ Similarity(found.query, found.qdrant[1]) + 10 < Similarity(found.query, found.qdrant[2])
    /\ Len(found.shown) = 4
    /\ found.shown[3].score > found.shown[4].score

\* the entries of the list whose content contains the query, case ignored
Hits(list, query) == SelectSeq(list, LAMBDA e : Contains(Lower(e.content), Lower(query)))

\* C14 (as the claim states it): search_redis returns the matching entries,
\* as many as the limit allows, newest first.
C14_SearchBufferExact ==
    (found.by = "search_mem" /\ found.list # <<>>) =>
        LET hits == Hits(found.list, found.query)
            r == found.redis
        IN /\ Len(r) = (IF found.limit < Len(hits) THEN found.limit ELSE Len(hits))
           /\ \A k \in 1..Len(r) :
                 \E h \in 1..Len(hits) :
                    /\ hits[h].content = r[k].content
                    /\ hits[h].role = r[k].role
                    /\ hits[h].timestamp = r[k].timestamp
           /\ \A k \in 1..(Len(r) - 1) : r[k].timestamp >= r[k + 1].timestamp

\* C15 (as the claim states it): a vector search whose access-stat updates
\* were all answered (and not switched off) has raised the access_count of
\* every point it returned by one; and a search returns the points of the
\* response whether the updates were answered or not.
C15_AccessCounted ==
    (found.by # "none" /\ found.track /\ found.updOk) =>
        \A k \in 1..Len(found.qdrant) :
            CopiesIn(found.qdrant[k], access) = CopiesIn(found.qdrant[k], found.access0) + 1

NumLines(lines) == Cardinality({k \in 1..Len(log) : log[k] \in lines})

NumFacts(rule, importance) ==
    Cardinality({k \in 1..Len(log_facts.facts) :
                   /\ log_facts.facts[k].rule = rule
                   /\ log_facts.facts[k].importance = importance})

Line(shape, bold) == [shape |-> shape, bold |-> bold]

\* the log_facts log is one of `headings`, two of `bullets` and one bold rule line
HeadingTwoBulletsAndRule(headings, bullets) ==
    /\ log_facts.done
    /\ Len(log) = 4
    /\ NumLines(headings) = 1
    /\ NumLines(bullets) = 2
    /\ NumLines({Line("text", TRUE)}) = 1

FourFactRecords ==
    /\ Len(log_facts.facts) = 4
    /\ NumFacts("section-header", "medium") = 1
    /\ NumFacts("bullet", "medium") = 2
    /\ NumFacts("critical-rule", "high") = 1

CriticalRules ==
    {k \in 1..Len(log_facts.facts) :
       log_facts.facts[k] = Fact("critical-rule", "high", "user")}

\* C17: every log line outside a code block that contains "**" becomes
\* exactly one FactRecord with importance high and source_type user, whatever
\* other rule (bullet, numbered, URL, key:value, table) the line matches: a
\* parsed log without code fences has as many such records as bold lines.
C17_BoldLineIsCriticalRule ==
    (log_facts.done /\ NumLines({Line("fence", FALSE)}) = 0)
    => Cardinality(CriticalRules) = Cardinality({k \in 1..Len(log) : log[k].bold})

\* the extraction has run twice in a row on the same, non-empty list of facts,
\* uploading both times
SameLogTwice ==
    /\ fx.ran /\ fx.prev.ran
    /\ fx.facts = fx.prev.facts
    /\ fx.facts # <<>>
    /\ ~fx.dry_run /\ ~fx.prev.dry_run

\* C18: Fact-Extraction uploads only new fragments: run twice on the same
\* unchanged log, a second run after a first run without failures selects and
\* uploads no fact, and a second run without failures after a first run with
\* failed fragments leaves every fragment of the log in the store.
C18_OnlyNewFragmentsUploaded ==
    SameLogTwice =>
        /\ fx.prev.failed = 0 => (fx.new_facts = <<>> /\ fx.uploaded = 0)
        /\ (fx.prev.failed > 0 /\ fx.failed = 0) =>
             \A k \in 1..Len(fx.facts) : CopiesIn(fx.facts[k], factStore) >= 1

\* what the Short-Term Buffer of a user holds when that user's Capture runs
\* alone have read the whole transcript
CapturedAlone == MemPayloads(parse_new_messages(transcript, 0, FALSE).msgs)

\* C19: state is partitioned by user_id: whatever runs for user "rob" have
\* happened, a finished Capture run for user "amy" since the transcript last
\* grew leaves in mem:amy every message of the transcript, as it does when
\* only amy's runs happen.
C19_OtherUserUnaffected ==
    (/\ cap.calls >= 1
     /\ cap.user_id = "amy"
     /\ cap.outcome \in {"appended", "no_changes", "no_messages"})
    => buffer["amy"] = CapturedAlone

\* the content of the entry is held by a Vector Store point of the run's user
DurablyStored(t) ==
    \E p \in BagToSet(store) : p.user_id = user_id /\ t.content \in Range(p.text)

StillBuffered(t) ==
    \E k \in 1..Len(buffer[user_id]) : buffer[user_id][k] = t

\* C20: with Capture runs interleaved between the steps of a Promotion run
\* for the same user, every turn Promotion read from the buffer is, when the
\* run has ended, held by the Vector Store or still in the buffer; only turns
\* appended after the read can be lost.
C20_ReadTurnsStoredOrKept ==
    pc = "done" =>
        \A k \in 1..Len(turns) : DurablyStored(turns[k]) \/ StillBuffered(turns[k])

\* ------------------------------------------------------------------ C21
\* Promotion invoked again and again on a buffer holding one complete
\* exchange; the embedding and Vector Store calls fail at most MaxFaults times
\* in all, the storage module may or may not have loaded
NextRetry ==
    \/ /\ clock = 0
       /\ CaptureAppend(USER_ID, FALSE)
       /\ CompleteExchanges(buffer'[USER_ID])
    \/ \E avail \in BOOLEAN : StartPromotion(USER_ID, FALSE, avail, TRUE)
    \/ StoreTurn(Outcomes)
    \/ Finish(TRUE)
    \/ Exit

\* cron starts the job again after every run; a started run goes on to its end
RetryFairness ==
    /\ WF_vars(\E avail \in BOOLEAN : StartPromotion(USER_ID, FALSE, avail, TRUE))
    /\ WF_vars(StoreTurn(Outcomes))
    /\ WF_vars(Finish(TRUE))
    /\ WF_vars(Exit)

SpecRetry == Init /\ [][NextRetry]_vars /\ RetryFairness

\* the run has cleared the buffer after every exchange it read came back
\* stored or skipped as a duplicate
ClearedAfterAllStored ==
    /\ pc = "done" /\ cleared
    /\ Len(calls) = Cardinality(UserTurns(turns))
    /\ Len(calls) >= 1
    /\ \A k \in 1..Len(calls) : calls[k].success \/ calls[k].skipped

\* C21: when Promotion is run again and again and the calls stop failing, a
\* buffer of complete exchanges is eventually cleared by a run in which every
\* exchange reached STORED or DUPLICATE_SKIPPED.
C21_RetryEventuallyStores ==
    (buffer[USER_ID] # <<>>) ~> ClearedAfterAllStored

\* ------------------------------------------------------------------ C22
\* one long-lived process calling auto_store.store_conversation_turn for
\* several users: the cache _recent_hashes lives as long as the process
AutoStore(u, user_message, ai_response, o) ==
    LET r == store_conversation_turn(store, recent_hashes, u, user_message,
                                     ai_response, o)
    IN /\ pc = "idle"
       /\ BagCardinality(r.store) <= MaxPoints
       /\ faults + FailedCalls(r.result) <= MaxFaults
       /\ faults' = faults + FailedCalls(r.result)
       /\ store' = r.store
       /\ recent_hashes' = r.recent
       /\ user_id' = u
       /\ store0' = store
       /\ calls' = <<r.result>>
       /\ UNCHANGED <<buffer, clock, dup_query_failed, pc, dry_run,
                      QDRANT_AVAILABLE, turns, turns_sorted, i, attempted,
                      success_count, qdrant_success, cleared, exitCode, prev>>
       /\ UNCHANGED <<factVars, captureVars, searchVars, parseVars, auxVars>>

NextProcess ==
    \E u \in AllUsers, user_message \in UserMsgs, ai_response \in AiMsgs, o \in Outcomes :
        AutoStore(u, user_message, ai_response, o)

SpecProcess == Init /\ [][NextProcess]_vars

\* C22: is_duplicate answers true only if the Vector Store holds a point with
\* the user_id and the content_hash of the exchange: a call skipped as a
\* duplicate found such a point in the store, whatever was stored before in
\* the process, for any user.
C22_DuplicateOnlyIfStoredForUser ==
    \A k \in 1..Len(calls) :
        calls[k].skipped => Matching(store0, user_id, CallHash(calls[k])) # {}

\* ------------------------------------------------------------------ C23
\* hb_append runs over a growing transcript, Redis answering
NextHeartbeat ==
    \/ \E kind \in LineKinds : WriteTranscript(kind)
    \/ \E u \in Users : HbMain(u, MaxLines)

SpecHeartbeat == Init /\ [][NextHeartbeat]_vars

\* C23: hb_append appends only the turns that are new since its last run: a
\* run that follows another with no transcript line added in between appends
\* nothing.
C23_SecondHeartbeatAppendsNothing ==
    (hb.runs >= 2 /\ hb.lines = hb.prev_lines) => hb.appended = 0

\* ------------------------------------------------------------------ C24
\* retrieval from a buffer filled by any of the three producers, Redis
\* answering
NextRetrieve ==
    \/ \E u \in Users : HbAppend(u, FALSE)
    \/ \E u \in Users : SaveMem(u, FALSE)
    \/ \E u \in Users : CaptureAppend(u, FALSE)
    \/ \E u \in Users, limit \in Limits : MemRetrieve(u, limit, TRUE)

SpecRetrieve == Init /\ [][NextRetrieve]_vars

\* C24: get_recent_turns returns the `limit` most recent turns of the buffer,
\* oldest first: min(limit, length) entries of the buffer in ascending
\* timestamp order, none older than an entry left out.
C24_MostRecentOldestFirst ==
    found.by = "mem_retrieve" =>
        LET sh == found.shown
            l == found.list
            In(e, s) == \E k \in 1..Len(s) : s[k] = e
        IN /\ Len(sh) = (IF found.limit < Len(l) THEN found.limit ELSE Len(l))
           /\ \A k \in 1..Len(sh) : In(sh[k], l)
           /\ \A a, b \in 1..Len(sh) : a < b => sh[a].timestamp <= sh[b].timestamp
           /\ \A k \in 1..Len(l) :
                 ~In(l[k], sh) => \A a \in 1..Len(sh) : l[k].timestamp <= sh[a].timestamp

\* ------------------------------------------------------------------ C25
\* compaction runs over a buffer that Capture fills in chronological order
\* and Promotion clears; Promotion's backends answering
NextCompact ==
    \/ \E u \in Users : CaptureAppend(u, FALSE)
    \/ StartPromotion(USER_ID, FALSE, TRUE, TRUE)
    \/ StoreTurn({AllOk})
    \/ Finish(TRUE)
    \/ Exit
    \/ \E u \in Users, max_items \in MaxItemsChoices, callsOk \in BOOLEAN :
         Compact(u, max_items, callsOk)

SpecCompact == Init /\ [][NextCompact]_vars

\* C25: a compaction run processes exactly the turns appended since the
\* previous run that saved its state: the turns it takes are the turns of the
\* buffer stamped after that run, each once.
C25_ProcessesExactlyNewTurns ==
    compact.ran =>
        /\ {compact.turns[k] : k \in 1..Len(compact.turns)}
             = {compact.list[k] : k \in {j \in 1..Len(compact.list) :
                                           compact.list[j].timestamp > compact.since}}
        /\ \A a, b \in 1..Len(compact.turns) :
              compact.turns[a] = compact.turns[b] => a = b

\* ------------------------------------------------------------------ C26
NextQueue ==
    \/ \E priority \in Priorities : AddTask(priority)
    \/ \E ok \in BOOLEAN : Worker(ok)

SpecQueue == Init /\ [][NextQueue]_vars

\* C26: the worker dequeues a pending high-priority task before every
\* pending medium- or low-priority task, and tasks of equal priority in the
\* order they were added: the task a run takes is not medium or low while a
\* high task is pending, and no pending task of its priority was added before
\* it.
C26_HighFirstThenFifo ==
    (worker.ran /\ worker.task # NoTask) =>
        \A k \in 1..Len(worker.pending0) :
            LET p == worker.pending0[k]
            IN /\ p.priority = "high" => worker.task.priority = "high"
               /\ p.priority = worker.task.priority => worker.task.id <= p.id

\* ------------------------------------------------------------------ claims C27..C30

\* Capture runs over a growing transcript while Redis may stop answering
\* after any number of the run's messages; the state file writable
NextFlaky ==
    \/ \E kind \in LineKinds : WriteTranscript(kind)
    \/ \E include_thinking \in BOOLEAN, redisUp \in 0..MaxLines :
         CaptureRun(USER_ID, FALSE, include_thinking, redisUp, TRUE)

SpecFlaky == Init /\ [][NextFlaky]_vars

\* the buffer entries that came from transcript line k
FromLine(k) == {j \in 1..Len(buffer[USER_ID]) : buffer[USER_ID][j].timestamp = k}

\* C27: across non-dry-run Capture runs in which a Redis append may fail at
\* any point, no transcript line is appended to the buffer more than once
C27_NoLineAppendedTwice ==
    \A k \in 1..MaxLines : Cardinality(FromLine(k)) <= 1

\* Capture runs while the agent writes lines to the transcript, whole or in
\* two parts; Redis and the state file writable
NextPartial ==
    \/ \E kind \in LineKinds : WriteTranscript(kind)
    \/ \E kind \in LineKinds : BeginLine(kind)
    \/ CompleteLine
    \/ CaptureRun(USER_ID, FALSE, FALSE, MaxLines, TRUE)

SpecPartial == Init /\ [][NextPartial]_vars

\* the last Capture run read the transcript, whole lines only, to its end
\* and saved the checkpoint
CapturedToEnd ==
    /\ tail = NoTail
    /\ cap.calls > 0
    /\ cap.outcome \in {"appended", "no_messages"}
    /\ state_file.present
    /\ state_file.size = Size(transcript)

\* C28: a qualifying line that was partially written when a Capture run read
\* to the end of the file is not lost: after the line is complete and a
\* Capture run has read the file to its end, the line's message is in the
\* buffer
C28_PartialLineNotLost ==
    CapturedToEnd =>
        \A k \in 1..Len(transcript) :
            Qualifies(transcript[k], FALSE) => FromLine(k) # {}

\* search_memories.py processes running at the same time over a store
\* written by the daily backup
NextTrack ==
    \/ \E u \in Users : DailyBackup(u, {AllOk}, {TRUE})
    \/ \E s \in Searchers, query \in Queries, limit \in Limits, track \in BOOLEAN :
         BeginSearch(s, query, limit, track)
    \/ \E s \in Searchers, ok \in BOOLEAN : UpdateAccess(s, ok)

SpecTrack == Init /\ [][NextTrack]_vars

\* C29: access counting loses no update: once every search has finished its
\* updates, the access_count of each point is the number of answered
\* access-stat updates of searches that returned it
C29_NoAccessUpdateLost ==
    (\A s \in Searchers : searcher[s] = NoResponse) =>
        \A p \in BagToSet(touched) : CopiesIn(p, access) = CopiesIn(p, touched)

\* storage processes handling exchanges at the same time, every backend
\* answering
NextStorers ==
    \/ \E s \in Storers, u \in AllUsers, user_message \in UserMsgs, ai_response \in AiMsgs :
         BeginStore(s, u, user_message, ai_response)
    \/ \E s \in Storers : FinishStore(s, AllOk)

SpecStorers == Init /\ [][NextStorers]_vars

\* the points of the store for user uid and content hash
PointsFor(uid, hash) ==
    CountWhere(store, LAMBDA p : p.user_id = uid /\ p.content_hash = hash)

\* C30: two storage processes handling the same exchange for the same user
\* at the same time never leave more than one set of three points for that
\* (user_id, content_hash) in the Vector Store
C30_OneSetOfThreePerExchange ==
    \A u \in AllUsers, user_message \in UserMsgs, ai_response \in AiMsgs :
        PointsFor(u, get_content_hash(user_message, ai_response)) <= 3

====
